---- MODULE Spec2Model ----
(***************************************************************************)
(* A model of the trade simulator of src/MAIN.cpp: the WebSocket ingestion *)
(* thread (WebSocketHandler), the simulation worker (SimulationWorker),    *)
(* the main thread (unit tests, UI loop, cleanup) and the SIGINT handler,  *)
(* over the globals orderBookHistory, currentResults, shouldStop, cv and   *)
(* the three mutexes.                                                      *)
(*                                                                         *)
(* Numbers.  Prices, sizes and quantities are whole units.  volatility,    *)
(* feeTier and every field of SimulationResults are in thousandths         *)
(* (0.001 is 1), so 0.02 is 20 and a fee tier of 1.0 is 1000.              *)
(*                                                                         *)
(* shouldStop is a plain bool, written by the signal handler and by main   *)
(* with no lock held and read by main and the worker.  Every loop that     *)
(* reads it calls functions the compiler cannot see through, so a read is  *)
(* a load from memory, and it is taken to yield the value last written.    *)
(***************************************************************************)
EXTENDS Integers, Sequences, FiniteSets, TLC

VARIABLES
    shouldStop,        \* bool shouldStop                       (MAIN.cpp:44)
    orderBookHistory,  \* std::deque<OrderBook>                 (MAIN.cpp:40)
    orderBookMutex,    \* owner of orderBookMutex, or "none"    (MAIN.cpp:41)
    currentResults,    \* SimulationResults currentResults      (MAIN.cpp:42)
    resultsMutex,      \* owner of resultsMutex, or "none"      (MAIN.cpp:43)
    cvMutex,           \* owner of cvMutex, or "none"           (MAIN.cpp:46)
    sigRegistered,     \* std::signal(SIGINT, ...) has run      (MAIN.cpp:436)
    mainPc,            \* position of main()
    uiResults,         \* Render's local copy `results`         (MAIN.cpp:345)
    wsPc,              \* position of wsThread
    wsOpen,            \* the WebSocket stream is open
    wsClosed,          \* a close of the stream has been started by Close()
    buffer_,           \* WebSocketHandler::buffer_, the frames it holds
    book,              \* ProcessData's local `book`
    depth,             \* nested Connect/RetryConnection frames on wsThread's stack
    frames,            \* frames received so far
    workerPc,          \* position of SimulationWorker
    results,           \* SimulationWorker's local `results`
    sim,               \* per calling thread: the activation of SimulateTrade
    ingested,          \* history of the history: every snapshot ever pushed, in order
    appends,           \* snapshots pushed by ProcessData
    notifies,          \* cv.notify_all() calls made by ProcessData
    capacity,          \* CONFIG_MAX_HISTORY of the build  (Trade_simulator.h:19)
    pingDue,           \* now - lastPing_ > seconds(CONFIG_PING_INTERVAL)
    pings,             \* heartbeats sent by ws_.ping          (MAIN.cpp:205)
    publishedFrom      \* which snapshot, counted as pushed, currentResults
                       \* was computed from; 0 for none

vars == << shouldStop, orderBookHistory, orderBookMutex, currentResults,
           resultsMutex, cvMutex, sigRegistered, mainPc, uiResults,
           wsPc, wsOpen, wsClosed, buffer_, book, depth, frames,
           workerPc, results, sim, ingested, appends, notifies,
           capacity, pingDue, pings, publishedFrom >>

(***************************************************************************)
(* Bounds of the model.                                                    *)
(***************************************************************************)
\* History capacity.  The program's value is 1000 (Trade_simulator.h:19);
\* the model runs the same code with a capacity small enough to fill.
CONFIG_MAX_HISTORY == 2
\* Frames the feed delivers in one run.
MaxFrames == 2
\* Stack frames of Connect and RetryConnection up to which a failure is followed.
MaxDepth == 4

(***************************************************************************)
(* Program constants.                                                      *)
(***************************************************************************)
CONFIG_DEFAULT_QUANTITY == 100
\* 0.02, in thousandths
CONFIG_DEFAULT_VOLATILITY == 20
\* 0.001, in thousandths
CONFIG_DEFAULT_FEE_TIER == 1

Min(a, b) == IF a <= b THEN a ELSE b

(***************************************************************************)
(* struct OrderBook.  asks and bids are sequences of <<price, size>>.      *)
(* timestamp is the time ProcessData read the clock, counted in frames:    *)
(* the snapshot built from the n-th frame received carries n.              *)
(***************************************************************************)
OrderBook(asks, bids, ts) ==
    [symbol |-> "BTC-USDT-SWAP", asks |-> asks, bids |-> bids, timestamp |-> ts]

\* A default-constructed OrderBook (OrderBook currentBook;).
EmptyBook == [symbol |-> "", asks |-> << >>, bids |-> << >>, timestamp |-> 0]

\* The book the SlippageCalculation test builds.
\* It never sets the timestamp, which stays at the epoch.
TestBook == OrderBook(<< <<101, 5>>, <<102, 10>> >>, << <<100, 10>> >>, 0)

(***************************************************************************)
(* struct SimulationResults.  makerTakerRatio is << >> for 0.0 and <<x>>   *)
(* for 1/(1+exp(-x)), x in thousandths.                                    *)
(***************************************************************************)
SimulationResults ==
    [slippage |-> 0, fees |-> 0, marketImpact |-> 0, netCost |-> 0,
     makerTakerRatio |-> << >>, latency |-> 0]

(***************************************************************************)
(* TradeSimulator: the cost model.                                         *)
(***************************************************************************)
\* ValidateInputs returns normally (TRUE) or throws std::invalid_argument.
ValidateInputs(quantity, volatility, feeTier) ==
    /\ ~(quantity <= 0)
    /\ ~(volatility < 0)
    /\ ~(feeTier < 0 \/ feeTier > 1000)

\* The loop of CalculateSlippage from ask i on: <<cost, filled>> at its end.
RECURSIVE WalkAsks(_, _, _, _, _)
WalkAsks(asks, i, orderQty, filled, cost) ==
    IF i > Len(asks) THEN << cost, filled >>
    ELSE LET price == asks[i][1]
             size  == asks[i][2]
             take  == Min(orderQty - filled, size)
             cost2 == cost + take * price
             filled2 == filled + take
         IN  IF filled2 >= orderQty THEN << cost2, filled2 >>
             ELSE WalkAsks(asks, i + 1, orderQty, filled2, cost2)

\* Line 309 dividing by the quantity filled, not the one ordered.
CalculateSlippagePerFilled(orderQty, b) ==
    LET initialPrice == b.bids[1][1]
        walk == WalkAsks(b.asks, 1, orderQty, 0, 0)
    IN  ((walk[1] * 1000) \div walk[2]) - initialPrice * 1000

\* (cost / orderQty) - initialPrice, in thousandths.
CalculateSlippage(orderQty, b) ==
    LET initialPrice == b.bids[1][1]
        cost == WalkAsks(b.asks, 1, orderQty, 0, 0)[1]
    IN  ((cost * 1000) \div orderQty) - initialPrice * 1000

\* The largest r in lo..hi with r * r <= n.
RECURSIVE SqrtIn(_, _, _)
SqrtIn(n, lo, hi) ==
    IF lo >= hi THEN lo
    ELSE LET mid == (lo + hi + 1) \div 2
         IN  IF mid * mid <= n THEN SqrtIn(n, mid, hi) ELSE SqrtIn(n, lo, mid - 1)

\* sqrt(orderQty) in thousandths.
Sqrt(orderQty) == SqrtIn(orderQty * 1000000, 0, 46340)

\* eta * q + gamma * q * q + volatility * sqrt(q) / sqrt(timeHorizon), with
\* eta = 0.01, gamma = 0.0001 and timeHorizon = 1.0, in thousandths.
CalculateMarketImpact(orderQty, volatility) ==
    10 * orderQty + ((orderQty * orderQty) \div 10)
        + ((volatility * Sqrt(orderQty)) \div 1000)

\* 1 / (1 + exp(-(0.005 * q - 0.1 * volatility + 2))): the exponent, boxed.
PredictMakerTakerRatio(orderQty, volatility) ==
    << 5 * orderQty - (volatility \div 10) + 2000 >>

\* Milliseconds the clock may show between `start` and `end` of one call.
Latencies == {0, 1}

\* Lines 256-277 with the fees left out of the sum of line 264.
ComputeResultsFeesLeftOut(quantity, volatility, feeTier, b, lat) ==
    LET slippage == CalculateSlippage(quantity, b)
        fees == quantity * feeTier
        marketImpact == CalculateMarketImpact(quantity, volatility)
    IN  [slippage |-> slippage, fees |-> fees, marketImpact |-> marketImpact,
         netCost |-> slippage + marketImpact,
         makerTakerRatio |-> PredictMakerTakerRatio(quantity, volatility),
         latency |-> lat]

\* Lines 256-277 of SimulateTrade: the results for a book with both sides.
ComputeResults(quantity, volatility, feeTier, b, lat) ==
    LET slippage == CalculateSlippage(quantity, b)
        fees == quantity * feeTier
        marketImpact == CalculateMarketImpact(quantity, volatility)
    IN  [slippage |-> slippage, fees |-> fees, marketImpact |-> marketImpact,
         netCost |-> slippage + fees + marketImpact,
         makerTakerRatio |-> PredictMakerTakerRatio(quantity, volatility),
         latency |-> lat]

(***************************************************************************)
(* One activation of TradeSimulator::SimulateTrade per calling thread.     *)
(* raised says an exception left the call.                                 *)
(***************************************************************************)
Callers == {"main", "worker", "caller"}

NoCall ==
    [pc |-> "idle", quantity |-> 0, volatility |-> 0, feeTier |-> 0,
     currentBook |-> EmptyBook, ret |-> SimulationResults, raised |-> FALSE]

\* Lines 237-241: the call, up to its lock.  ValidateInputs returns and the
\* call goes on, or it throws and the catch block of line 280 returns
\* SimulationResults().
Call(quantity, volatility, feeTier) ==
    [NoCall EXCEPT !.pc = IF ValidateInputs(quantity, volatility, feeTier)
                          THEN "lock" ELSE "returned",
                   !.quantity = quantity,
                   !.volatility = volatility, !.feeTier = feeTier]

\* return SimulationResults(); of the catch block at line 280.
CaughtReturn(t) ==
    [sim EXCEPT ![t].pc = "returned", ![t].ret = SimulationResults]

globalVars == << shouldStop, orderBookHistory, orderBookMutex, currentResults,
                 resultsMutex, cvMutex >>
mainVars   == << sigRegistered, mainPc, uiResults >>
wsVars     == << wsPc, wsOpen, wsClosed, buffer_, book, depth, frames >>
workerVars == << workerPc, results >>
ghostVars  == << ingested, appends, notifies >>
pingVars   == << pingDue, pings >>

\* The thread t is inside its call of SimulateTrade.
InCall(t) ==
    CASE t = "main"   -> mainPc = "test_call"
      [] t = "worker" -> workerPc = "w_sim"
      [] OTHER        -> TRUE

\* What locking a std::mutex its caller already owns may do (undefined
\* behaviour): block for ever, or throw std::system_error.
Relock == {"hang", "throw"}

\* Line 245: std::lock_guard<std::mutex> lock(orderBookMutex).
SimLock(t) ==
    /\ InCall(t)
    /\ sim[t].pc = "lock"
    /\ IF orderBookMutex = t
       THEN /\ \E outcome \in Relock :
                 sim' = IF outcome = "hang"
                        THEN [sim EXCEPT ![t].pc = "hung"]
                        ELSE CaughtReturn(t)
            /\ UNCHANGED orderBookMutex
       ELSE /\ orderBookMutex = "none"
            /\ orderBookMutex' = t
            /\ sim' = [sim EXCEPT ![t].pc = "copy"]
    /\ UNCHANGED << capacity, pingVars, publishedFrom,
                    shouldStop, orderBookHistory, currentResults, resultsMutex,
                    cvMutex, mainVars, wsVars, workerVars, ghostVars >>

\* orderBookHistory.front() where the code has back(): the oldest book.
Front(history) == history[1]

\* orderBookHistory.back()
Back(history) == history[Len(history)]

\* Lines 246-248: copy the latest book out, if there is one.
SimCopy(t) ==
    /\ InCall(t)
    /\ sim[t].pc = "copy"
    /\ sim' = [sim EXCEPT ![t].pc = "unlock",
                          ![t].currentBook =
                              IF orderBookHistory # << >>
                              THEN Back(orderBookHistory)
                              ELSE sim[t].currentBook]
    /\ UNCHANGED << capacity, pingVars, publishedFrom,
                    globalVars, mainVars, wsVars, workerVars, ghostVars >>

\* Line 251 testing the bids only: a book with no asks is priced.
ResultsForBidsOnly(c, lat) ==
    IF c.currentBook.bids = << >>
    THEN SimulationResults
    ELSE ComputeResults(c.quantity, c.volatility, c.feeTier, c.currentBook, lat)

\* Lines 251-277 for the book copied: the default results for a book with
\* an empty side, the computed ones otherwise.
ResultsFor(c, lat) ==
    IF c.currentBook.bids = << >> \/ c.currentBook.asks = << >>
    THEN SimulationResults
    ELSE ComputeResults(c.quantity, c.volatility, c.feeTier, c.currentBook, lat)

\* Lines 249-277: the lock_guard leaves scope and the call returns its results.
SimUnlock(t) ==
    /\ InCall(t)
    /\ sim[t].pc = "unlock"
    /\ orderBookMutex' = "none"
    /\ \E lat \in Latencies :
          sim' = [sim EXCEPT ![t].pc = "returned",
                             ![t].ret = ResultsFor(sim[t], lat)]
    /\ UNCHANGED << capacity, pingVars, publishedFrom,
                    shouldStop, orderBookHistory, currentResults, resultsMutex,
                    cvMutex, mainVars, wsVars, workerVars, ghostVars >>

SimulateTrade(t) ==
    SimLock(t) \/ SimCopy(t) \/ SimUnlock(t)

\* cv.notify_all(): the worker, if blocked in cv.wait, is woken.
NotifyAll(pc) == IF pc = "w_blocked" THEN "w_woken" ELSE pc

(***************************************************************************)
(* main(): the unit tests, the threads, the UI loop, the cleanup.          *)
(***************************************************************************)
\* RUN_ALL_TESTS() (line 430).  Either no test is selected to run (the
\* GTEST_FILTER of the environment), or SlippageCalculation (lines 405-415)
\* locks orderBookMutex, pushes its book and calls
\* SimulateTrade(7.0, 0.01, 0.001) with the lock held.
RunTests ==
    /\ mainPc = "tests"
    /\ \/ /\ mainPc' = "register"
          /\ UNCHANGED << orderBookMutex, orderBookHistory, ingested, sim >>
       \/ /\ orderBookMutex = "none"
          /\ orderBookMutex' = "main"
          /\ orderBookHistory' = Append(orderBookHistory, TestBook)
          /\ ingested' = Append(ingested, TestBook)
          /\ sim' = [sim EXCEPT !["main"] = Call(7, 10, 1)]
          /\ mainPc' = "test_call"
    /\ UNCHANGED << capacity, pingVars, publishedFrom,
                    shouldStop, currentResults, resultsMutex, cvMutex,
                    sigRegistered, uiResults, wsVars, workerVars, appends,
                    notifies >>

\* Lines 415-417: the call has returned; the test's lock_guard leaves scope.
TestEnd ==
    /\ mainPc = "test_call"
    /\ sim["main"].pc = "returned"
    /\ orderBookMutex' = "none"
    /\ sim' = [sim EXCEPT !["main"] = NoCall]
    /\ mainPc' = "register"
    /\ UNCHANGED << capacity, pingVars, publishedFrom,
                    shouldStop, orderBookHistory, currentResults, resultsMutex,
                    cvMutex, sigRegistered, uiResults, wsVars, workerVars,
                    ghostVars >>

\* Line 436: std::signal(SIGINT, handler).
Register ==
    /\ mainPc = "register"
    /\ sigRegistered' = TRUE
    /\ mainPc' = "start_ws"
    /\ UNCHANGED << capacity, pingVars, publishedFrom,
                    globalVars, uiResults, wsVars, workerVars, sim, ghostVars >>

\* Line 441: wsThread starts and calls wsHandler.Connect().
StartWs ==
    /\ mainPc = "start_ws"
    /\ wsPc' = "connect"
    /\ depth' = 1
    /\ mainPc' = "start_sim"
    /\ UNCHANGED << capacity, pingVars, publishedFrom,
                    globalVars, sigRegistered, uiResults, wsOpen, wsClosed,
                    buffer_, book, frames, workerVars, sim, ghostVars >>

\* Line 447: simulationThread starts.
StartSim ==
    /\ mainPc = "start_sim"
    /\ workerPc' = "w_loop"
    /\ mainPc' = "ui_check"
    /\ UNCHANGED << capacity, pingVars, publishedFrom,
                    globalVars, sigRegistered, uiResults, wsVars, results, sim,
                    ghostVars >>

\* Line 451: while (!shouldStop).
UiCheck ==
    /\ mainPc = "ui_check"
    /\ mainPc' = IF shouldStop THEN "cleanup" ELSE "ui_copy"
    /\ UNCHANGED << capacity, pingVars, publishedFrom,
                    globalVars, sigRegistered, uiResults, wsVars, workerVars,
                    sim, ghostVars >>

\* Lines 347-348 without the lock_guard: the copy is made whoever holds
\* resultsMutex.
UiCopyUnlocked ==
    /\ mainPc = "ui_copy"
    /\ uiResults' = currentResults
    /\ mainPc' = "ui_unlock"
    /\ UNCHANGED << capacity, pingVars, publishedFrom,
                    globalVars, sigRegistered, wsVars, workerVars, sim, ghostVars >>

\* Render, lines 347-348: lock resultsMutex; results = currentResults.
UiCopy ==
    /\ mainPc = "ui_copy"
    /\ resultsMutex = "none"
    /\ resultsMutex' = "main"
    /\ uiResults' = currentResults
    /\ mainPc' = "ui_unlock"
    /\ UNCHANGED << capacity, pingVars, publishedFrom,
                    shouldStop, orderBookHistory, orderBookMutex, currentResults,
                    cvMutex, sigRegistered, wsVars, workerVars, sim, ghostVars >>

\* Render, line 349 on: the lock_guard leaves scope, the copy is printed
\* and Render returns; then the sleep of line 453.
UiUnlock ==
    /\ mainPc = "ui_unlock"
    /\ resultsMutex' = "none"
    /\ uiResults' = SimulationResults
    /\ mainPc' = "ui_check"
    /\ UNCHANGED << capacity, pingVars, publishedFrom,
                    shouldStop, orderBookHistory, orderBookMutex, currentResults,
                    cvMutex, sigRegistered, wsVars, workerVars, sim, ghostVars >>

\* Line 457: shouldStop = true.
Cleanup ==
    /\ mainPc = "cleanup"
    /\ shouldStop' = TRUE
    /\ mainPc' = "m_notify"
    /\ UNCHANGED << capacity, pingVars, publishedFrom,
                    orderBookHistory, orderBookMutex, currentResults, resultsMutex,
                    cvMutex, sigRegistered, uiResults, wsVars, workerVars, sim,
                    ghostVars >>

\* Line 458: cv.notify_all(), with no mutex held.
MainNotify ==
    /\ mainPc = "m_notify"
    /\ workerPc' = NotifyAll(workerPc)
    /\ mainPc' = "m_close"
    /\ UNCHANGED << capacity, pingVars, publishedFrom,
                    globalVars, sigRegistered, uiResults, wsVars, results, sim,
                    ghostVars >>

\* Line 460: wsHandler.Close().  ws_.close starts the close of an open
\* stream, or throws (the stream is not open, the write fails) and Close
\* logs the exception.
MainClose ==
    /\ mainPc = "m_close"
    /\ \E thrown \in BOOLEAN : wsClosed' = (wsClosed \/ (wsOpen /\ ~thrown))
    /\ mainPc' = "join_ws"
    /\ UNCHANGED << capacity, pingVars, publishedFrom,
                    globalVars, sigRegistered, uiResults, wsPc, wsOpen, buffer_,
                    book, depth, frames, workerVars, sim, ghostVars >>

\* Line 461: wsThread.join().
JoinWs ==
    /\ mainPc = "join_ws"
    /\ wsPc = "done"
    /\ mainPc' = "join_sim"
    /\ UNCHANGED << capacity, pingVars, publishedFrom,
                    globalVars, sigRegistered, uiResults, wsVars, workerVars,
                    sim, ghostVars >>

\* Line 462: simulationThread.join(); main returns.
JoinSim ==
    /\ mainPc = "join_sim"
    /\ workerPc = "done"
    /\ mainPc' = "done"
    /\ UNCHANGED << capacity, pingVars, publishedFrom,
                    globalVars, sigRegistered, uiResults, wsVars, workerVars,
                    sim, ghostVars >>

\* Lines 436-438: SIGINT arrives and the handler sets shouldStop.
Sigint ==
    /\ sigRegistered
    /\ mainPc \notin {"done", "aborted"}
    /\ shouldStop' = TRUE
    /\ UNCHANGED << capacity, pingVars, publishedFrom,
                    orderBookHistory, orderBookMutex, currentResults, resultsMutex,
                    cvMutex, mainVars, wsVars, workerVars, sim, ghostVars >>

Main ==
    \/ RunTests \/ TestEnd \/ SimulateTrade("main") \/ Register \/ StartWs
    \/ StartSim \/ UiCheck \/ UiCopy \/ UiUnlock \/ Cleanup
    \/ MainNotify \/ MainClose \/ JoinWs \/ JoinSim

(***************************************************************************)
(* WebSocketHandler on wsThread.                                           *)
(*                                                                         *)
(* A frame is one of these texts:                                          *)
(*   "BOOK"     {"symbol":"BTC-USDT-SWAP","asks":[[101,5],[102,10]],       *)
(*               "bids":[[100,10]]}                                        *)
(*   "SPACE"    white space only                                           *)
(*   "JUNK"     a text no JSON document contains, such as }                *)
(*   "NOSYM"    {"asks":[[101,5]],"bids":[[100,10]]}                       *)
(*   "BADTYPE"  {"symbol":"BTC-USDT-SWAP","asks":[["x",5]],                *)
(*               "bids":[[100,10]]}                                        *)
(*   "SHORT"    {"symbol":"BTC-USDT-SWAP","asks":[[101]],                  *)
(*               "bids":[[100,10]]}                                        *)
(* and a text is a sequence of frames, read as their concatenation.        *)
(***************************************************************************)
Frames == {"BOOK", "SPACE", "JUNK", "NOSYM", "BADTYPE", "SHORT"}

\* The text less its white space.
Documents(text) == SelectSeq(text, LAMBDA f : f # "SPACE")

\* nlohmann::json::parse(json_str) returns: the text is exactly one JSON
\* document, with white space around it at most.
JsonParses(text) ==
    /\ Len(Documents(text)) = 1
    /\ Documents(text)[1] # "JUNK"

\* ValidateJson (lines 215-226).
ValidateJson(text) ==
    /\ JsonParses(text)
    /\ Documents(text)[1] # "NOSYM"

\* What ask[1] may yield for the one-element entry [101]: the const
\* operator[] does not check the index (undefined behaviour).
GarbageSizes == {0, 7}

\* Lines 131-146 on a validated document, at time ts: the book they build,
\* an exception, or the end of the process.
BuildBook(doc, ts) ==
    CASE doc = "BOOK" ->
            { [how |-> "book",
               book |-> OrderBook(<< <<101, 5>>, <<102, 10>> >>,
                                  << <<100, 10>> >>, ts)] }
      [] doc = "BADTYPE" ->
            { [how |-> "throw", book |-> EmptyBook] }
      [] doc = "SHORT" ->
            { [how |-> "throw", book |-> EmptyBook],
              [how |-> "abort", book |-> EmptyBook] }
            \cup { [how |-> "book",
                    book |-> OrderBook(<< <<101, g>> >>, << <<100, 10>> >>, ts)]
                   : g \in GarbageSizes }

\* Lines 76-96 of Connect: resolve, connect and handshake succeed and
\* StartAsyncRead posts the first read, after which every frame on the
\* stack returns; or one of them throws and the catch calls RetryConnection.
WsConnect ==
    /\ wsPc = "connect"
    /\ \/ /\ wsOpen' = TRUE
          /\ wsPc' = "reading"
          /\ depth' = 0
       \/ /\ depth < MaxDepth
          /\ depth' = depth + 1
          /\ wsPc' = "retry"
          /\ UNCHANGED wsOpen
    /\ UNCHANGED << capacity, pingVars, publishedFrom,
                    globalVars, mainVars, wsClosed, buffer_, book, frames,
                    workerVars, sim, ghostVars >>

\* Lines 170-179 of RetryConnection, after the sleep: the try block calls
\* Connect, or throws before it and the catch calls RetryConnection.
WsRetry ==
    /\ wsPc = "retry"
    /\ \/ /\ wsPc' = "connect"
          /\ depth' = depth + 1
       \/ /\ depth < MaxDepth
          /\ depth' = depth + 1
          /\ wsPc' = "retry"
    /\ UNCHANGED << capacity, pingVars, publishedFrom,
                    globalVars, mainVars, wsOpen, wsClosed, buffer_, book, frames,
                    workerVars, sim, ghostVars >>

\* The read handler with error::closed (lines 103-109), after Close() started
\* the close: it returns without posting a read.
WsReadClosed ==
    /\ wsPc = "reading"
    /\ wsClosed
    /\ wsPc' = "done"
    /\ wsOpen' = FALSE
    /\ UNCHANGED << capacity, pingVars, publishedFrom,
                    globalVars, mainVars, wsClosed, buffer_, book, depth,
                    frames, workerVars, sim, ghostVars >>

\* The read handler with any other error code (lines 103-109): the peer
\* closed or the transport failed.  It logs and returns without posting a
\* read; io_context::run has no work left and returns.
WsReadError ==
    /\ wsPc = "reading"
    /\ wsPc' = "done"
    /\ wsOpen' = FALSE
    /\ UNCHANGED << capacity, pingVars, publishedFrom,
                    globalVars, mainVars, wsClosed, buffer_, book, depth,
                    frames, workerVars, sim, ghostVars >>

\* The read handler with a frame (line 112): async_read has added the frame
\* to buffer_, and ProcessData runs on all of buffer_ up to its lock
\* (lines 120-146), or returns early, or the process ends.
WsFrame ==
    /\ wsPc = "reading"
    /\ frames < MaxFrames
    /\ \E f \in Frames :
        LET text == Append(buffer_, f)
            ts   == frames + 1
        IN  /\ buffer_' = text
            /\ frames' = ts
            /\ IF ~ValidateJson(text)
               THEN /\ wsPc' = "reading"
                    /\ UNCHANGED << book, mainPc, workerPc >>
               ELSE \E o \in BuildBook(Documents(text)[1], ts) :
                      CASE o.how = "book" ->
                              /\ book' = o.book
                              /\ wsPc' = "pd_lock"
                              /\ UNCHANGED << mainPc, workerPc >>
                        [] o.how = "throw" ->
                              /\ wsPc' = "reading"
                              /\ UNCHANGED << book, mainPc, workerPc >>
                        [] o.how = "abort" ->
                              /\ wsPc' = "aborted"
                              /\ mainPc' = "aborted"
                              /\ workerPc' = "aborted"
                              /\ UNCHANGED book
    /\ UNCHANGED << capacity, pingVars, publishedFrom,
                    globalVars, sigRegistered, uiResults, wsOpen, wsClosed, depth,
                    results, sim, ghostVars >>

\* Line 150: lock orderBookMutex.
WsLock ==
    /\ wsPc = "pd_lock"
    /\ orderBookMutex = "none"
    /\ orderBookMutex' = "ws"
    /\ wsPc' = "pd_evict"
    /\ UNCHANGED << capacity, pingVars, publishedFrom,
                    shouldStop, orderBookHistory, currentResults, resultsMutex,
                    cvMutex, mainVars, wsOpen, wsClosed, buffer_, book, depth,
                    frames, workerVars, sim, ghostVars >>

\* Lines 151-153 with > for >=: the history is let grow one past capacity.
EvictOffByOne(history) ==
    IF Len(history) > capacity THEN Tail(history) ELSE history

\* Lines 151-153: pop_front when the history is at capacity.
Evict(history) ==
    IF Len(history) >= capacity THEN Tail(history) ELSE history

WsEvict ==
    /\ wsPc = "pd_evict"
    /\ orderBookHistory' = Evict(orderBookHistory)
    /\ wsPc' = "pd_push"
    /\ UNCHANGED << capacity, pingVars, publishedFrom,
                    shouldStop, orderBookMutex, currentResults, resultsMutex,
                    cvMutex, mainVars, wsOpen, wsClosed, buffer_, book, depth,
                    frames, workerVars, sim, ghostVars >>

\* Line 154: push_back(book).
WsPush ==
    /\ wsPc = "pd_push"
    /\ orderBookHistory' = Append(orderBookHistory, book)
    /\ ingested' = Append(ingested, book)
    /\ appends' = appends + 1
    /\ wsPc' = "pd_unlock"
    /\ UNCHANGED << capacity, pingVars, publishedFrom,
                    shouldStop, orderBookMutex, currentResults, resultsMutex,
                    cvMutex, mainVars, wsOpen, wsClosed, buffer_, book, depth,
                    frames, workerVars, sim, notifies >>

\* Line 155 with the lock_guard still alive: ProcessData goes for cvMutex
\* holding orderBookMutex.
WsUnlockMissing ==
    /\ wsPc = "pd_unlock"
    /\ wsPc' = "pd_cvlock"
    /\ UNCHANGED << capacity, pingVars, publishedFrom, globalVars, mainVars,
                    wsOpen, wsClosed, buffer_, book, depth, frames, workerVars,
                    sim, ghostVars >>

\* Line 155: the lock_guard leaves scope.
WsUnlock ==
    /\ wsPc = "pd_unlock"
    /\ orderBookMutex' = "none"
    /\ wsPc' = "pd_cvlock"
    /\ UNCHANGED << capacity, pingVars, publishedFrom,
                    shouldStop, orderBookHistory, currentResults, resultsMutex,
                    cvMutex, mainVars, wsOpen, wsClosed, buffer_, book, depth,
                    frames, workerVars, sim, ghostVars >>

\* Line 159: lock cvMutex.
WsCvLock ==
    /\ wsPc = "pd_cvlock"
    /\ cvMutex = "none"
    /\ cvMutex' = "ws"
    /\ wsPc' = "pd_notify"
    /\ UNCHANGED << capacity, pingVars, publishedFrom,
                    shouldStop, orderBookHistory, orderBookMutex, currentResults,
                    resultsMutex, mainVars, wsOpen, wsClosed, buffer_, book, depth,
                    frames, workerVars, sim, ghostVars >>

\* Line 160 left out: ProcessData goes on without notifying.
WsNotifyMissing ==
    /\ wsPc = "pd_notify"
    /\ wsPc' = "pd_cvunlock"
    /\ UNCHANGED << capacity, pingVars, publishedFrom,
                    globalVars, mainVars, wsOpen, wsClosed, buffer_, book, depth,
                    frames, workerVars, sim, ghostVars >>

\* Line 160: cv.notify_all().
WsNotify ==
    /\ wsPc = "pd_notify"
    /\ workerPc' = NotifyAll(workerPc)
    /\ notifies' = notifies + 1
    /\ wsPc' = "pd_cvunlock"
    /\ UNCHANGED << capacity, pingVars, publishedFrom,
                    globalVars, mainVars, wsOpen, wsClosed, buffer_, book, depth,
                    frames, results, sim, ingested, appends >>

\* Line 161, then line 115: the lock_guard leaves scope, ProcessData
\* returns and the handler posts the next read.
WsCvUnlock ==
    /\ wsPc = "pd_cvunlock"
    /\ cvMutex' = "none"
    /\ book' = EmptyBook
    /\ wsPc' = "reading"
    /\ UNCHANGED << capacity, pingVars, publishedFrom,
                    shouldStop, orderBookHistory, orderBookMutex, currentResults,
                    resultsMutex, mainVars, wsOpen, wsClosed, buffer_, depth,
                    frames, workerVars, sim, ghostVars >>

\* Time passes on the open stream: more than CONFIG_PING_INTERVAL seconds
\* separate the clock from lastPing_, which the constructor set (line 72).
Clock ==
    /\ wsOpen
    /\ wsPc # "aborted"
    /\ ~pingDue
    /\ pingDue' = TRUE
    /\ UNCHANGED << capacity, pings, publishedFrom, globalVars, mainVars, wsVars,
                    workerVars, sim, ghostVars >>

\* Ping (lines 201-212): when the interval has passed, ws_.ping sends a
\* heartbeat and lastPing_ is set, or ws_.ping throws and the exception is
\* logged.  No function of the program calls Ping, on a timer or from the
\* read handler, so it is no step of wsThread or of any other thread.
Ping ==
    /\ IF pingDue
       THEN \E thrown \in BOOLEAN :
               IF thrown
               THEN UNCHANGED pingVars
               ELSE pings' = pings + 1 /\ pingDue' = FALSE
       ELSE UNCHANGED pingVars
    /\ UNCHANGED << capacity, publishedFrom, globalVars, mainVars, wsVars,
                    workerVars, sim, ghostVars >>

Ws ==
    \/ WsConnect \/ WsRetry \/ WsReadClosed \/ WsReadError \/ WsFrame \/ WsLock \/ WsEvict
    \/ WsPush \/ WsUnlock \/ WsCvLock \/ WsNotify \/ WsCvUnlock

(***************************************************************************)
(* SimulationWorker on simulationThread.                                   *)
(***************************************************************************)
\* Line 377: while (!shouldStop).
WorkerLoop ==
    /\ workerPc = "w_loop"
    /\ workerPc' = IF shouldStop THEN "done" ELSE "w_lock"
    /\ UNCHANGED << capacity, pingVars, publishedFrom,
                    globalVars, mainVars, wsVars, results, sim, ghostVars >>

\* Line 378: std::unique_lock<std::mutex> lock(cvMutex); and, in cv.wait,
\* the lock taken again after a wake.
WorkerLock ==
    /\ workerPc \in {"w_lock", "w_woken"}
    /\ cvMutex = "none"
    /\ cvMutex' = "worker"
    /\ workerPc' = "w_pred"
    /\ UNCHANGED << capacity, pingVars, publishedFrom,
                    shouldStop, orderBookHistory, orderBookMutex, currentResults,
                    resultsMutex, mainVars, wsVars, results, sim, ghostVars >>

\* The predicate of line 379, which reads the history and the flag.
WaitPredicate == orderBookHistory # << >> \/ shouldStop

\* Line 379: cv.wait evaluates its predicate with cvMutex held.
WorkerPred ==
    /\ workerPc = "w_pred"
    /\ workerPc' = IF WaitPredicate THEN "w_check" ELSE "w_wait"
    /\ UNCHANGED << capacity, pingVars, publishedFrom,
                    globalVars, mainVars, wsVars, results, sim, ghostVars >>

\* Line 379: the predicate was false; cv.wait releases cvMutex and blocks,
\* in one step.
WorkerWait ==
    /\ workerPc = "w_wait"
    /\ cvMutex' = "none"
    /\ workerPc' = "w_blocked"
    /\ UNCHANGED << capacity, pingVars, publishedFrom,
                    shouldStop, orderBookHistory, orderBookMutex, currentResults,
                    resultsMutex, mainVars, wsVars, results, sim, ghostVars >>

\* A wake of cv.wait that no notify caused, which the standard allows.
WorkerSpuriousWake ==
    /\ workerPc = "w_blocked"
    /\ workerPc' = "w_woken"
    /\ UNCHANGED << capacity, pingVars, publishedFrom,
                    globalVars, mainVars, wsVars, results, sim, ghostVars >>

\* Line 381: if (shouldStop) return; else lines 385-389 call SimulateTrade.
WorkerCheck ==
    /\ workerPc = "w_check"
    /\ IF shouldStop
       THEN /\ cvMutex' = "none"
            /\ workerPc' = "done"
            /\ UNCHANGED sim
       ELSE /\ workerPc' = "w_sim"
            /\ sim' = [sim EXCEPT !["worker"] =
                          Call(CONFIG_DEFAULT_QUANTITY, CONFIG_DEFAULT_VOLATILITY,
                               CONFIG_DEFAULT_FEE_TIER)]
            /\ UNCHANGED cvMutex
    /\ UNCHANGED << capacity, pingVars, publishedFrom,
                    shouldStop, orderBookHistory, orderBookMutex, currentResults,
                    resultsMutex, mainVars, wsVars, results, ghostVars >>

\* The members of SimulationResults that the copy of line 394 has stored
\* when it is half way: the assignment of the struct copies member by member.
FirstHalf(r, from) ==
    [r EXCEPT !.slippage = from.slippage, !.fees = from.fees,
              !.marketImpact = from.marketImpact]

\* The place among the snapshots pushed of the book b, 0 if it is none of them.
PushedAs(b) ==
    IF \E i \in 1..Len(ingested) : ingested[i] = b
    THEN CHOOSE i \in 1..Len(ingested) : ingested[i] = b
    ELSE 0

\* Lines 385-394: results = the value SimulateTrade returned; lock
\* resultsMutex; currentResults = results, its first members.
WorkerPublish ==
    /\ workerPc = "w_sim"
    /\ sim["worker"].pc = "returned"
    /\ resultsMutex = "none"
    /\ resultsMutex' = "worker"
    /\ results' = sim["worker"].ret
    /\ currentResults' = FirstHalf(currentResults, sim["worker"].ret)
    /\ workerPc' = "w_publish"
    /\ UNCHANGED << capacity, pingVars, publishedFrom,
                    shouldStop, orderBookHistory, orderBookMutex, cvMutex,
                    mainVars, wsVars, sim, ghostVars >>

\* Line 394: currentResults = results, the members left.
WorkerPublishRest ==
    /\ workerPc = "w_publish"
    /\ currentResults' = results
    /\ publishedFrom' = PushedAs(sim["worker"].currentBook)
    /\ sim' = [sim EXCEPT !["worker"] = NoCall]
    /\ workerPc' = "w_resunlock"
    /\ UNCHANGED << capacity, pingVars,
                    shouldStop, orderBookHistory, orderBookMutex, resultsMutex,
                    cvMutex, mainVars, wsVars, results, ghostVars >>

\* Line 395: the lock_guard leaves scope.
WorkerResUnlock ==
    /\ workerPc = "w_resunlock"
    /\ resultsMutex' = "none"
    /\ workerPc' = "w_unlock"
    /\ UNCHANGED << capacity, pingVars, publishedFrom,
                    shouldStop, orderBookHistory, orderBookMutex, currentResults,
                    cvMutex, mainVars, wsVars, results, sim, ghostVars >>

\* Line 401: the unique_lock leaves scope at the end of the loop body.
WorkerUnlock ==
    /\ workerPc = "w_unlock"
    /\ cvMutex' = "none"
    /\ workerPc' = "w_loop"
    /\ UNCHANGED << capacity, pingVars, publishedFrom,
                    shouldStop, orderBookHistory, orderBookMutex, currentResults,
                    resultsMutex, mainVars, wsVars, results, sim, ghostVars >>

Worker ==
    \/ WorkerLoop \/ WorkerLock \/ WorkerPred \/ WorkerWait \/ WorkerCheck
    \/ SimulateTrade("worker") \/ WorkerPublish \/ WorkerPublishRest
    \/ WorkerResUnlock \/ WorkerUnlock

(***************************************************************************)
(* The program.                                                            *)
(***************************************************************************)
Init ==
    /\ shouldStop = FALSE
    /\ orderBookHistory = << >>
    /\ orderBookMutex = "none"
    /\ currentResults = SimulationResults
    /\ resultsMutex = "none"
    /\ cvMutex = "none"
    /\ sigRegistered = FALSE
    /\ mainPc = "tests"
    /\ uiResults = SimulationResults
    /\ wsPc = "unstarted"
    /\ wsOpen = FALSE
    /\ wsClosed = FALSE
    /\ buffer_ = << >>
    /\ book = EmptyBook
    /\ depth = 0
    /\ frames = 0
    /\ workerPc = "unstarted"
    /\ results = SimulationResults
    /\ sim = [t \in Callers |-> NoCall]
    /\ ingested = << >>
    /\ appends = 0
    /\ notifies = 0
    /\ capacity = CONFIG_MAX_HISTORY
    /\ pingDue = FALSE
    /\ pings = 0
    /\ publishedFrom = 0

Next == Main \/ Ws \/ Worker \/ WorkerSpuriousWake \/ Sigint

Spec == Init /\ [][Next]_vars

\* The steps wsThread takes by itself; a frame or an error of the transport
\* (WsFrame, WsReadError) comes when the peer and the network decide.
WsOwn ==
    \/ WsConnect \/ WsRetry \/ WsReadClosed \/ WsLock \/ WsEvict \/ WsPush
    \/ WsUnlock \/ WsCvLock \/ WsNotify \/ WsCvUnlock

\* Every thread that can take a step is scheduled in the end.
FairSpec ==
    Spec /\ WF_vars(Main) /\ WF_vars(Worker) /\ WF_vars(WsOwn)

\* FairSpec, and the worker gets resultsMutex in the end although Render
\* takes it again and again: main sleeps 200 ms (line 453) between two
\* calls of Render, each of which holds the mutex for one copy.
FreshSpec ==
    FairSpec /\ SF_vars(WorkerPublish)

\* The program with the passing of the heartbeat interval followed, every
\* thread scheduled as in FairSpec.
TimedNext == Next \/ Clock

TimedSpec ==
    Init /\ [][TimedNext]_vars
         /\ WF_vars(Main) /\ WF_vars(Worker) /\ WF_vars(WsOwn)

\* The program built with any capacity from 1 up to the model's.
CapInit ==
    \E c \in 1..CONFIG_MAX_HISTORY :
        /\ capacity = c
        /\ shouldStop = FALSE
        /\ orderBookHistory = << >>
        /\ orderBookMutex = "none"
        /\ currentResults = SimulationResults
        /\ resultsMutex = "none"
        /\ cvMutex = "none"
        /\ sigRegistered = FALSE
        /\ mainPc = "tests"
        /\ uiResults = SimulationResults
        /\ wsPc = "unstarted"
        /\ wsOpen = FALSE
        /\ wsClosed = FALSE
        /\ buffer_ = << >>
        /\ book = EmptyBook
        /\ depth = 0
        /\ frames = 0
        /\ workerPc = "unstarted"
        /\ results = SimulationResults
        /\ sim = [t \in Callers |-> NoCall]
        /\ ingested = << >>
        /\ appends = 0
        /\ notifies = 0
        /\ pingDue = FALSE
        /\ pings = 0
        /\ publishedFrom = 0

CapSpec == CapInit /\ [][Next]_vars

(***************************************************************************)
(* SimulateTrade on its own: one call, by a caller that is none of the     *)
(* program's threads, with arguments and a history drawn from small sets.  *)
(***************************************************************************)
Quantities   == {-1, 0, 7, 100}
Volatilities == {-1, 0, 10}
FeeTiers     == {-1, 0, 1, 1000, 1500}

\* A book with no asks, as {"symbol":..,"asks":[],"bids":[[100,10]]} yields.
NoAsksBook == OrderBook(<< >>, << <<100, 10>> >>, 1)

\* A book with no bids, as {"symbol":..,"asks":[[101,5]],"bids":[]} yields.
NoBidsBook == OrderBook(<< <<101, 5>> >>, << >>, 1)

Histories ==
    { << >>, << TestBook >>, << NoAsksBook >>, << NoBidsBook >>,
      << NoAsksBook, TestBook >>, << TestBook, NoBidsBook >> }

SimInit ==
    /\ shouldStop = FALSE
    /\ orderBookHistory \in Histories
    /\ orderBookMutex = "none"
    /\ currentResults = SimulationResults
    /\ resultsMutex = "none"
    /\ cvMutex = "none"
    /\ sigRegistered = FALSE
    /\ mainPc = "tests"
    /\ uiResults = SimulationResults
    /\ wsPc = "unstarted"
    /\ wsOpen = FALSE
    /\ wsClosed = FALSE
    /\ buffer_ = << >>
    /\ book = EmptyBook
    /\ depth = 0
    /\ frames = 0
    /\ workerPc = "unstarted"
    /\ results = SimulationResults
    /\ \E q \in Quantities, v \in Volatilities, f \in FeeTiers :
          sim = [t \in Callers |->
                    IF t = "caller"
                    THEN [NoCall EXCEPT !.quantity = q, !.volatility = v,
                                        !.feeTier = f]
                    ELSE NoCall]
    /\ ingested = orderBookHistory
    /\ appends = 0
    /\ notifies = 0
    /\ capacity = CONFIG_MAX_HISTORY
    /\ pingDue = FALSE
    /\ pings = 0
    /\ publishedFrom = 0

\* The caller calls SimulateTrade with its arguments.
CallerCall ==
    /\ sim["caller"].pc = "idle"
    /\ sim' = [sim EXCEPT !["caller"] =
                  Call(sim["caller"].quantity, sim["caller"].volatility,
                       sim["caller"].feeTier)]
    /\ UNCHANGED << capacity, pingVars, publishedFrom,
                    globalVars, mainVars, wsVars, workerVars, ghostVars >>

SimNext == CallerCall \/ SimulateTrade("caller")

SimSpec == SimInit /\ [][SimNext]_vars

(***************************************************************************)
(* Properties.                                                             *)
(***************************************************************************)
\* The last n elements of a sequence.
LastN(seq, n) == SubSeq(seq, Len(seq) - n + 1, Len(seq))

\* C1: once shouldStop is set, SimulationWorker leaves its wait and returns
\* (or the whole process has ended), whatever the interleaving of its
\* predicate and its blocking with the write of the flag and the notify.
C1_WorkerReturnsAfterShutdown ==
    shouldStop ~> (workerPc \in {"done", "aborted"})

\* C2: the history never holds more than CONFIG_MAX_HISTORY snapshots.
C2_HistoryBounded ==
    Len(orderBookHistory) <= CONFIG_MAX_HISTORY

\* ProcessData has pushed a snapshot onto a history that was at capacity.
C2_Witness ==
    /\ wsPc = "pd_unlock"
    /\ Len(ingested) > CONFIG_MAX_HISTORY
    /\ Len(orderBookHistory) = CONFIG_MAX_HISTORY

\* C3: outside the two statements of an append, the history is the last
\* min(n, CONFIG_MAX_HISTORY) of the n snapshots pushed so far, in the order
\* they were pushed; and the book SimulateTrade has copied is the one pushed
\* last.
C3_FifoAndLatest ==
    /\ wsPc # "pd_push" =>
          orderBookHistory =
             LastN(ingested, Min(Len(ingested), CONFIG_MAX_HISTORY))
    /\ \A t \in Callers :
          (sim[t].pc = "unlock" /\ ingested # << >>) =>
              sim[t].currentBook = ingested[Len(ingested)]

\* The worker has copied the latest book after the first snapshot was evicted.
C3_Witness ==
    /\ sim["worker"].pc = "unlock"
    /\ Len(ingested) = CONFIG_MAX_HISTORY + 1
    /\ orderBookHistory = Tail(ingested)
    /\ sim["worker"].currentBook = ingested[Len(ingested)]

\* C4: the nesting of Connect and RetryConnection on wsThread stays within
\* the two frames of one attempt (Connect, and RetryConnection under it),
\* however many attempts have failed.
C4_RetryDepthBounded ==
    depth <= 2

\* C5: each of the three loops has ended only if shouldStop is set: wsThread
\* has not returned, SimulationWorker has not returned and main has not
\* left its UI loop while shouldStop is false.
C5_LoopsEndOnlyOnShutdown ==
    (\/ wsPc = "done"
     \/ workerPc = "done"
     \/ mainPc \in {"cleanup", "m_notify", "m_close", "join_ws", "join_sim", "done"})
        => shouldStop

\* C6: a call of SimulateTrade with arguments ValidateInputs rejects ends
\* with an exception leaving the call, not with a returned result.
C6_InvalidArgumentsRaise ==
    \A t \in Callers :
        (/\ sim[t].pc = "returned"
         /\ ~ValidateInputs(sim[t].quantity, sim[t].volatility, sim[t].feeTier))
            => sim[t].raised

\* A frame that is not by itself a JSON document with symbol, asks and bids
\* whose entries are pairs of numbers.
Malformed(f) == f \in {"SPACE", "JUNK", "NOSYM", "BADTYPE", "SHORT"}

\* C7: when a malformed frame is received, the handler drops it: the history
\* and the count of notifies stay as they are, nothing is being appended, and
\* the next read is posted.
C7_MalformedDropped ==
    [][(/\ wsPc = "reading"
        /\ frames' = frames + 1
        /\ Malformed(buffer_'[Len(buffer_')]))
          => (/\ wsPc' = "reading"
              /\ orderBookHistory' = orderBookHistory
              /\ notifies' = notifies)]_vars

\* C8: ProcessData has notified once for every snapshot it has pushed, but
\* for the one it has just pushed and is about to notify for.
C8_OneNotifyPerAppend ==
    notifies = appends -
        (IF wsPc \in {"pd_unlock", "pd_cvlock", "pd_notify"} THEN 1 ELSE 0)

\* Two snapshots have been ingested and notified for.
C8_Witness ==
    /\ wsPc = "reading"
    /\ appends = 2
    /\ notifies = 2

\* C9: a thread about to read or write orderBookHistory holds
\* orderBookMutex: the worker evaluating the predicate of cv.wait, a call of
\* SimulateTrade copying the latest book, ProcessData evicting and pushing.
C9_HistoryAccessUnderLock ==
    /\ workerPc = "w_pred" => orderBookMutex = "worker"
    /\ wsPc \in {"pd_evict", "pd_push"} => orderBookMutex = "ws"
    /\ \A t \in Callers : sim[t].pc = "copy" => orderBookMutex = t

\* C10: with shouldStop set, wsThread starts no further connection attempt
\* from RetryConnection and its read handler posts no further read.
C10_NoRetryOrReadAfterShutdown ==
    [][shouldStop =>
         /\ ~(wsPc = "retry" /\ wsPc' = "connect")
         /\ ~(wsPc \in {"reading", "pd_cvunlock"} /\ wsPc' = "reading")]_vars

\* r is a result one cycle of the worker can hand over: the default one, or
\* the one computed with the fixed configuration from a snapshot pushed so
\* far, with a latency the clock can show.
CompleteResult(r) ==
    \/ r = SimulationResults
    \/ /\ r.latency \in Latencies
       /\ \E i \in 1..Len(ingested) :
             r = ComputeResults(CONFIG_DEFAULT_QUANTITY, CONFIG_DEFAULT_VOLATILITY,
                                CONFIG_DEFAULT_FEE_TIER, ingested[i], r.latency)

\* C11: the copy Render has taken of currentResults is the initial all-zero
\* result or one complete result of a single worker cycle, never members of
\* two; and so is currentResults whenever the worker does not hold
\* resultsMutex.
C11_PublishedResultAtomic ==
    /\ mainPc = "ui_unlock" => CompleteResult(uiResults)
    /\ resultsMutex # "worker" => CompleteResult(currentResults)

\* Render has copied a published result while the worker, one cycle on, holds
\* a result that differs from it.
C11_Witness ==
    /\ mainPc = "ui_unlock"
    /\ uiResults # SimulationResults
    /\ CompleteResult(uiResults)
    /\ sim["worker"].pc = "returned"
    /\ sim["worker"].ret # uiResults

\* The history is empty, or its latest snapshot has no bids or no asks.
NothingToPrice ==
    \/ orderBookHistory = << >>
    \/ Back(orderBookHistory).bids = << >>
    \/ Back(orderBookHistory).asks = << >>

\* C12: a call of SimulateTrade with arguments ValidateInputs accepts, made
\* while the history is empty or its latest snapshot lacks a side, returns
\* the all-zero SimulationResults and lets no exception out.
C12_NoDataGivesDefault ==
    (/\ sim["caller"].pc = "returned"
     /\ ValidateInputs(sim["caller"].quantity, sim["caller"].volatility,
                       sim["caller"].feeTier)
     /\ NothingToPrice)
        => (sim["caller"].ret = SimulationResults /\ ~sim["caller"].raised)

\* A call with valid arguments has returned the default results for a latest
\* snapshot that has bids and no asks.
C12_Witness ==
    /\ sim["caller"].pc = "returned"
    /\ ValidateInputs(sim["caller"].quantity, sim["caller"].volatility,
                      sim["caller"].feeTier)
    /\ orderBookHistory # << >>
    /\ Back(orderBookHistory).asks = << >>
    /\ sim["caller"].currentBook = Back(orderBookHistory)
    /\ sim["caller"].ret = SimulationResults

\* The sizes of the ask levels, summed.
RECURSIVE AskDepth(_)
AskDepth(asks) ==
    IF asks = << >> THEN 0 ELSE asks[1][2] + AskDepth(Tail(asks))

\* What filling `remaining` from the asks in order costs, each level giving
\* min(remaining, its size) at its price.
RECURSIVE FillCost(_, _)
FillCost(asks, remaining) ==
    IF asks = << >> THEN 0
    ELSE LET take == Min(remaining, asks[1][2])
         IN  take * asks[1][1] + FillCost(Tail(asks), remaining - take)

C14_HeartbeatSent ==
    (wsOpen /\ pingDue) ~>
        (pings > 0 \/ ~wsOpen \/ shouldStop \/ wsPc = "aborted")

\* netCost is the sum of the three costs; makerTakerRatio is no part of it.
NetCostAdds(r) == r.netCost = r.slippage + r.fees + r.marketImpact

\* C15: netCost = slippage + fees + marketImpact in every result
\* SimulateTrade has returned, in the worker's and Render's copies, and in
\* currentResults whenever the worker is not in the middle of storing into
\* it; the all-zero result included.
C15_NetCostIsSum ==
    /\ \A t \in Callers : sim[t].pc = "returned" => NetCostAdds(sim[t].ret)
    /\ NetCostAdds(results)
    /\ NetCostAdds(uiResults)
    /\ resultsMutex # "worker" => NetCostAdds(currentResults)

\* A computed result is published and a second one, with another slippage,
\* has been returned to the worker.
C15_Witness ==
    /\ resultsMutex = "none"
    /\ currentResults.netCost # 0
    /\ NetCostAdds(currentResults)
    /\ sim["worker"].pc = "returned"
    /\ sim["worker"].ret.slippage # currentResults.slippage
    /\ sim["worker"].ret.netCost # 0

\* C16: once the k-th snapshot is in the history with the worker running,
\* the worker in the end publishes a result computed from the k-th snapshot
\* pushed or a later one, unless shutdown is requested.
C16_Freshness ==
    \A k \in 1..(MaxFrames + 1) :
        (Len(ingested) >= k /\ workerPc # "unstarted")
            ~> (publishedFrom >= k \/ shouldStop)

\* C16 for the runs in which the process does not end under the worker.
C16_FreshnessUnlessAborted ==
    \A k \in 1..(MaxFrames + 1) :
        (Len(ingested) >= k /\ workerPc # "unstarted")
            ~> (publishedFrom >= k \/ shouldStop \/ workerPc = "aborted")

\* C17: when a frame is received, the text ProcessData validates and parses
\* is that frame alone, with nothing of the frames before it, and if the
\* frame is a valid book ProcessData goes on to append it.
C17_FrameParsedAlone ==
    [][(frames' = frames + 1)
          => (/\ buffer_' = << buffer_'[Len(buffer_')] >>
              /\ buffer_'[Len(buffer_')] = "BOOK" => wsPc' = "pd_lock")]_vars

\* C18: SimulateTrade called by the test, which holds orderBookMutex and has
\* just pushed its book, is never blocked for good at its own lock, and
\* when it has returned it has copied the test's book and priced it.
C18_CallUnderLockReturns ==
    /\ sim["main"].pc # "hung"
    /\ sim["main"].pc = "returned" =>
          /\ sim["main"].currentBook = TestBook
          /\ \E lat \in Latencies :
                sim["main"].ret = ComputeResults(7, 10, 1, TestBook, lat)

\* The three activities: ingestion, the worker, and main as the renderer.
Activities == {"ws", "worker", "main"}

\* The owner of a mutex.
Owner(m) ==
    CASE m = "orderBookMutex" -> orderBookMutex
      [] m = "resultsMutex"   -> resultsMutex
      [] m = "cvMutex"        -> cvMutex

\* The mutex the activity t is about to lock, "none" if it is not at a lock.
Wants(t) ==
    CASE t = "ws" ->
            IF wsPc = "pd_lock" THEN "orderBookMutex"
            ELSE IF wsPc = "pd_cvlock" THEN "cvMutex" ELSE "none"
      [] t = "worker" ->
            IF workerPc \in {"w_lock", "w_woken"} THEN "cvMutex"
            ELSE IF workerPc = "w_sim" /\ sim["worker"].pc = "lock"
                 THEN "orderBookMutex"
            ELSE IF workerPc = "w_sim" /\ sim["worker"].pc = "returned"
                 THEN "resultsMutex" ELSE "none"
      [] t = "main" ->
            IF mainPc = "ui_copy" THEN "resultsMutex" ELSE "none"

\* t is at a lock whose mutex another thread owns.
Blocked(t) == Wants(t) # "none" /\ Owner(Wants(t)) # "none"

\* Some activities are each blocked on a mutex one of them owns.
CircularWait ==
    \E S \in SUBSET Activities :
        /\ S # {}
        /\ \A t \in S : Blocked(t) /\ Owner(Wants(t)) \in S

\* C19: ingestion, the worker and the renderer are never in a circular
\* wait; main in its UI loop owns neither orderBookMutex nor cvMutex, and
\* when Render is blocked the owner of resultsMutex is not blocked itself.
C19_NoCircularWait ==
    /\ ~CircularWait
    /\ mainPc \in {"ui_check", "ui_copy", "ui_unlock"} =>
          (orderBookMutex # "main" /\ cvMutex # "main")
    /\ Blocked("main") => ~Blocked(Owner("resultsMutex"))

\* Ingestion waits for cvMutex and Render for resultsMutex, both owned by
\* the worker, which is storing its result.
C19_Witness ==
    /\ Blocked("ws")
    /\ Blocked("main")
    /\ Owner(Wants("ws")) = "worker"
    /\ Owner(Wants("main")) = "worker"
    /\ ~Blocked("worker")

\* C20: whatever the capacity, from the first snapshot pushed on the worker
\* never finds the predicate of cv.wait false, so it never goes to block in
\* the wait again.
C20_NoWaitAfterFirstSnapshot ==
    [][(ingested # << >>) => ~(workerPc = "w_pred" /\ workerPc' = "w_wait")]_vars

====
